---- MODULE Spec2Model ----
(***************************************************************************)
(* Model of the retrieval pipeline of ai-mcp-training:                     *)
(*   - mcp_server/db.py  : _chunk_text, _embed_texts, add_document,         *)
(*                         delete_document, search_documents and the        *)
(*                         schema created by init_db;                       *)
(*   - backend/mcp_client.py : _retry_request, add_document;               *)
(*   - mcp_server/app.py : the async HTTP handlers;                         *)
(*   - backend/app.py    : the admin sessions.                              *)
(* Six specifications share the module: SpecChunk (the pure chunker),       *)
(* SpecRetry (the retry loop), Spec (the store and its callers), SpecLoop   *)
(* (the event loops of the two processes), SpecClient (one add_document     *)
(* call of the backend client against the server) and SpecSession (the      *)
(* admin sessions of the backend).                                          *)
(***************************************************************************)
EXTENDS Integers, Sequences, FiniteSets, TLC

VARIABLES
    \* ---- chunker (db.py:91-117) ----
    c_pc,          \* "ready" | "done"
    text,          \* the argument text, as a sequence of tokens (see below)
    chunk_size,    \* the argument chunk_size
    overlap,       \* the argument overlap
    c_result,      \* the returned list of chunks
    \* ---- retry loop (mcp_client.py:12-22) ----
    r_pc,          \* "for" | "try" | "sleep" | "returned" | "raised" | "off"
    max_retries,   \* the argument max_retries
    delay,         \* the argument delay
    attempt,       \* the loop variable of `for attempt in range(max_retries)`
    calls,         \* what each invocation of func() did, in order
    sleeps,        \* the argument of each asyncio.sleep, in order
    r_result,      \* what the call returned or raised
    \* ---- store and its callers (db.py:152-238, schema db.py:37-61) ----
    documents,     \* rows of table documents
    doc_chunks,    \* rows of table doc_chunks
    nextUuid,      \* source of fresh uuid4 values
    apiKey,        \* whether OPENAI_API_KEY is set (db.py:13)
    extension,     \* whether pg_extension holds a row for 'vector'
    deleted,       \* history: ids whose row a delete_document call removed
    pc,            \* per add_document call (named by its doc_id): where it is
                   \* ("returned": it returned; "ended": it raised or died)
    loc,           \* per add_document call: its locals
    ret,           \* the call that has just completed (NoRet: none has)
    \* ---- the event loops of the two processes (app.py:71-85, ----
    \* ---- mcp_client.py:12-34)                                 ----
    running,       \* per process: the task its event-loop thread is executing
    tasks,         \* per task: its process, where it is, its retry attempt
    \* ---- one add_document call of the backend client (mcp_client.py:25-34) ----
    request,       \* its arguments: [filename, content]
    served,        \* the server's add_document call answering the current attempt
    \* ---- admin sessions of the backend (backend/app.py:31-129) ----
    active_sessions, \* the dict: session id -> [created_at, last_accessed]
    now,           \* what datetime.now() returns, in hours
    nextSid,       \* source of fresh uuid4 session ids
    verifiers,     \* per request that checks a session cookie: where it is
    loginTime,     \* history: per session id, when its login created it
    removed        \* sessions deleted by a logout or found expired, by id

chunkVars == <<c_pc, text, chunk_size, overlap, c_result>>
retryVars == <<r_pc, max_retries, delay, attempt, calls, sleeps, r_result>>
storeVars ==
    <<documents, doc_chunks, nextUuid, apiKey, extension, deleted, pc, loc, ret>>
loopVars == <<running, tasks>>
clientVars == <<request, served>>
sessionVars ==
    <<active_sessions, now, nextSid, verifiers, loginTime, removed>>
vars == <<chunkVars, retryVars, storeVars, loopVars, clientVars, sessionVars>>

Min(a, b) == IF a < b THEN a ELSE b
Max(a, b) == IF a > b THEN a ELSE b

(***************************************************************************)
(* Python str values.  A text is the sequence of its tokens: SP, one        *)
(* whitespace character, and word tokens <<letter, n>>, each a maximal run  *)
(* of n non-whitespace characters (so two word tokens are never adjacent).  *)
(***************************************************************************)
SP == <<" ", 1>>
IsWord(tok) == tok[1] # " "
WordLen(word) == word[2]                       \* len(word)

\* str.split(): the words, in order, whitespace dropped
Split(s) == SelectSeq(s, IsWord)

\* " ".join(words)
RECURSIVE Join(_)
Join(words) ==
    IF Len(words) = 0 THEN <<>>
    ELSE IF Len(words) = 1 THEN <<words[1]>>
    ELSE <<words[1], SP>> \o Join(Tail(words))

\* str.strip(): leading and trailing whitespace removed
RECURSIVE LStrip(_)
LStrip(s) == IF Len(s) > 0 /\ s[1] = SP THEN LStrip(Tail(s)) ELSE s
RECURSIVE RStrip(_)
RStrip(s) ==
    IF Len(s) > 0 /\ s[Len(s)] = SP THEN RStrip(SubSeq(s, 1, Len(s) - 1)) ELSE s
Strip(s) == RStrip(LStrip(s))

\* a chunker that restarts current_len at 0 when it opens a chunk
SumLenZero(words) == 0

\* sum(len(w) + 1 for w in current_chunk)
RECURSIVE SumLen(_)
SumLen(words) ==
    IF Len(words) = 0 THEN 0 ELSE WordLen(words[1]) + 1 + SumLen(Tail(words))

\* Python's seq[-k:] for k >= 0: the last k elements, all of seq when
\* k >= len(seq), and, since -0 = 0, all of seq when k = 0.
LastK(seq, k) ==
    IF k = 0 THEN seq ELSE SubSeq(seq, Max(1, Len(seq) - k + 1), Len(seq))

\* current_chunk[-(overlap // 5):] if overlap > 0 else []
OverlapWords(current_chunk, ov) ==
    IF ov > 0 THEN LastK(current_chunk, ov \div 5) ELSE <<>>

\* The for loop of _chunk_text from word i on; returns [chunks, current_chunk].
RECURSIVE ChunkLoop(_, _, _, _, _, _, _)
ChunkLoop(words, i, chunks, current_chunk, current_len, cs, ov) ==
    IF i > Len(words) THEN [chunks |-> chunks, current_chunk |-> current_chunk]
    ELSE LET word == words[i]
             wlen == WordLen(word) + 1
         IN  IF current_len + wlen > cs /\ Len(current_chunk) > 0
             THEN LET next == OverlapWords(current_chunk, ov) \o <<word>>
                  IN  ChunkLoop(words, i + 1, Append(chunks, Join(current_chunk)),
                                next, SumLen(next), cs, ov)
             ELSE ChunkLoop(words, i + 1, chunks, Append(current_chunk, word),
                            current_len + wlen, cs, ov)

\* _chunk_text(text, chunk_size, overlap)
ChunkText(s, cs, ov) ==
    LET r      == ChunkLoop(Split(s), 1, <<>>, <<>>, 0, cs, ov)
        chunks == IF Len(r.current_chunk) > 0
                  THEN Append(r.chunks, Join(r.current_chunk))
                  ELSE r.chunks
        nonEmpty(c) == Len(Strip(c)) > 0
        kept   == SelectSeq(chunks, nonEmpty)
    IN  [i \in 1..Len(kept) |-> Strip(kept[i])]

(***************************************************************************)
(* SpecChunk: _chunk_text applied to every small text, size and overlap.    *)
(***************************************************************************)
MaxTokens == 7
MaxChunkSize == 6
MaxOverlap == 10
WordTokens == {<<"a", 1>>, <<"b", 3>>}
Tokens == WordTokens \cup {SP}

WellFormedText(s) ==
    \A i \in 1..(Len(s) - 1) : ~(IsWord(s[i]) /\ IsWord(s[i + 1]))

RECURSIVE TextsOfLen(_)
TextsOfLen(n) ==
    IF n = 0 THEN {<<>>}
    ELSE {Append(s, tok) : s \in TextsOfLen(n - 1), tok \in Tokens}

Texts == {s \in UNION {TextsOfLen(n) : n \in 0..MaxTokens} : WellFormedText(s)}

ChunkIdle ==
    /\ c_pc = "off" /\ text = <<>> /\ chunk_size = 0 /\ overlap = 0
    /\ c_result = <<>>

InitChunk ==
    /\ c_pc = "ready"
    /\ text \in Texts
    /\ chunk_size \in -1..MaxChunkSize
    /\ overlap \in -1..MaxOverlap
    /\ c_result = <<>>

\* the call _chunk_text(text, chunk_size, overlap)
CallChunkText ==
    /\ c_pc = "ready"
    /\ c_result' = ChunkText(text, chunk_size, overlap)
    /\ c_pc' = "done"
    /\ UNCHANGED <<text, chunk_size, overlap>>
    /\ UNCHANGED <<retryVars, storeVars, loopVars, clientVars, sessionVars>>

(***************************************************************************)
(* The retry loop of the backend client, mcp_client.py:12-22.               *)
(* func() is the remote call: each invocation returns a response or raises  *)
(* an httpx error; the environment picks which.                             *)
(***************************************************************************)
MaxRetries == 3
MaxDelay == 2
\* Python's None, as a returned value
None == "None"
Responses == {"resp1", "resp2"}
Messages == {"msg1", "msg2"}
\* httpx.ConnectError and httpx.TimeoutException are what line 17 catches;
\* HTTPStatusError (raise_for_status) stands for every other Exception.
RetryableTypes == {"ConnectError", "TimeoutException"}
ErrorTypes == RetryableTypes \cup {"HTTPStatusError"}
Errors == [type : ErrorTypes, msg : Messages]
Outcomes == [kind : {"ok"}, value : Responses] \cup [kind : {"error"}, exc : Errors]

RECURSIVE Pow2(_)
Pow2(n) == IF n <= 0 THEN 1 ELSE 2 * Pow2(n - 1)

\* a retry loop without backoff: the same delay before every attempt
BackoffDelayConstant(d, att) == d

\* delay * (2 ** attempt)
BackoffDelay(d, att) == d * Pow2(att)

\* a handler that retries on every Exception
IsRetryableAny(exc) == TRUE

\* except (httpx.ConnectError, httpx.TimeoutException)
IsRetryable(exc) == exc.type \in RetryableTypes

\* the last-attempt test off by one: attempt == max_retries
IsLastAttemptOffByOne(att, mr) == att = mr

\* attempt == max_retries - 1
IsLastAttempt(att, mr) == att = mr - 1

\* httpx.ConnectError(f"Failed to connect to MCP server after {max_retries}
\* attempts: {str(e)}")
GiveUpError(mr, e) ==
    [type |-> "ConnectError", attempts |-> mr, cause |-> e.msg]

RetryIdle ==
    /\ r_pc = "off" /\ max_retries = 0 /\ delay = 0 /\ attempt = 0
    /\ calls = <<>> /\ sleeps = <<>> /\ r_result = [kind |-> "pending"]

InitRetry ==
    /\ r_pc = "for"
    /\ max_retries \in -1..MaxRetries
    /\ delay \in 1..MaxDelay
    /\ attempt = 0
    /\ calls = <<>>
    /\ sleeps = <<>>
    /\ r_result = [kind |-> "pending"]

\* line 14: for attempt in range(max_retries); falling off the loop returns
\* None
RetryFor ==
    /\ r_pc = "for"
    /\ IF attempt < max_retries
       THEN r_pc' = "try" /\ UNCHANGED r_result
       ELSE r_pc' = "returned" /\ r_result' = [kind |-> "return", value |-> None]
    /\ UNCHANGED <<max_retries, delay, attempt, calls, sleeps>>
    /\ UNCHANGED <<chunkVars, storeVars, loopVars, clientVars, sessionVars>>

\* lines 15-22, up to the sleep: func() has done o (returned a value or
\* raised), and the handlers
RetryOutcome(o) ==
    /\ calls' = Append(calls, o)
    /\ IF o.kind = "ok"
       THEN r_pc' = "returned"
            /\ r_result' = [kind |-> "return", value |-> o.value]
       ELSE IF IsRetryable(o.exc)
       THEN IF IsLastAttempt(attempt, max_retries)
            THEN r_pc' = "raised"
                 /\ r_result' = [kind |-> "raise",
                                 exc |-> GiveUpError(max_retries, o.exc)]
            ELSE r_pc' = "sleep" /\ UNCHANGED r_result
       ELSE r_pc' = "raised" /\ r_result' = [kind |-> "raise", exc |-> o.exc]
    /\ UNCHANGED <<max_retries, delay, attempt, sleeps>>

\* one invocation of a func() of which only the outcome is known
RetryTry ==
    /\ r_pc = "try"
    /\ \E o \in Outcomes : RetryOutcome(o)
    /\ UNCHANGED <<chunkVars, storeVars, loopVars, clientVars, sessionVars>>

\* line 20: await asyncio.sleep(delay * (2 ** attempt)), then the next
\* iteration
RetrySleep ==
    /\ r_pc = "sleep"
    /\ sleeps' = Append(sleeps, BackoffDelay(delay, attempt))
    /\ attempt' = attempt + 1
    /\ r_pc' = "for"
    /\ UNCHANGED <<max_retries, delay, calls, r_result>>
    /\ UNCHANGED <<chunkVars, storeVars, loopVars, clientVars, sessionVars>>

(***************************************************************************)
(* The store (the schema of init_db, db.py:37-61) and the entry points of   *)
(* db.py.  add_document opens its connection with autocommit=True, so each  *)
(* of its statements is its own transaction: other calls (of this or of     *)
(* another server process; app.py and mcp_server.py both import db.py) see  *)
(* the store between any two of them.  delete_document is one statement and *)
(* search_documents only reads, in one transaction after its embedding      *)
(* call, so each is one step.  A running add_document call is named by the   *)
(* doc_id it drew; any number of callers may be behind the calls.           *)
(***************************************************************************)
EMBED_DIM == 1536
DEFAULT_CHUNK_SIZE == 1200
DEFAULT_OVERLAP == 200
DEFAULT_TOP_K == 5

MaxUuid == 1
MaxContentWords == 2

\* uuid4 values, in the order they are drawn; UnknownUuid is a well-formed id
\* that uuid4 never returns here
UnknownUuid == 0
Uuids == 1..MaxUuid

\* content is None (kept a sequence, so that it compares with the strings)
NoneContent == << <<"None", 0>> >>
LongWord == <<"w", 700>>
ContentOfWords(k) == Join([i \in 1..k |-> LongWord])
Contents ==
    {NoneContent, <<>>, <<SP>>} \cup {ContentOfWords(k) : k \in 1..MaxContentWords}
Filenames == {"", "a.txt"}
Queries == {"", "q"}
TopKs == {1, DEFAULT_TOP_K}

\* An embedding vector is modelled by its length; the provider answers with
\* 1536 floats per text, or with some other number of them.
VectorDims == {EMBED_DIM, EMBED_DIM \div 2}
RECURSIVE VectorLists(_)
VectorLists(n) ==
    IF n = 0 THEN {<<>>}
    ELSE {Append(v, d) : v \in VectorLists(n - 1), d \in VectorDims}

\* What requests.post(...) and the provider can do for n texts: the request
\* times out or fails, the status is not 200, the payload has no "data", or
\* it has a list of at most n embeddings.  Without a key no request is made.
ProviderReplies(n, key) ==
    IF ~key THEN {[kind |-> "unasked"]}
    ELSE [kind : {"Timeout", "RequestException", "status", "KeyError"}]
           \cup {[kind |-> "ok", data |-> v] :
                   v \in UNION {VectorLists(m) : m \in 0..n}}

\* an _embed_texts that swallows every failure and returns no embedding
EmbedTextsSwallows(texts, key, reply) ==
    IF key /\ reply.kind = "ok"
    THEN [kind |-> "ok", embeddings |-> reply.data]
    ELSE [kind |-> "ok", embeddings |-> <<>>]

\* _embed_texts(texts), given the provider's reply: the list of embeddings or
\* the exception raised, named by its type (the three request failures are
\* all re-raised as RuntimeError, lines 141-149)
EmbedTexts(texts, key, reply) ==
    IF ~key THEN [kind |-> "raise", exc |-> "RuntimeError"]
    ELSE IF reply.kind \in {"Timeout", "RequestException", "status"}
    THEN [kind |-> "raise", exc |-> "RuntimeError"]
    ELSE IF reply.kind = "KeyError"
    THEN [kind |-> "raise", exc |-> "KeyError"]
    ELSE [kind |-> "ok", embeddings |-> reply.data]

\* an add_document that embeds whatever the chunker returned
NeedsEmbeddingAlways(chunks) == TRUE

\* `if chunks` of line 157: _embed_texts is called only for a non-empty list
NeedsEmbedding(chunks) == Len(chunks) > 0

\* zip(chunks, embeddings): as long as the shorter of the two
ZipLen(chunks, embeddings) == Min(Len(chunks), Len(embeddings))

\* not filename or content is None
AddInvalid(filename, content) == filename = "" \/ content = NoneContent

DocIds(docs) == {d.id : d \in docs}
ChunksOf(chunkRows, id) == {c \in chunkRows : c.doc_id = id}

\* a doc_chunks table whose doc_id column has no REFERENCES clause
ForeignKeyNotEnforced(docs, doc_id) == TRUE

\* doc_id UUID REFERENCES documents(id): an insert into doc_chunks is
\* accepted only if its doc_id is the id of a documents row
ForeignKeyHolds(docs, doc_id) == doc_id \in DocIds(docs)

\* embedding VECTOR(1536): a value of another dimension is refused
VectorFits(emb) == emb = EMBED_DIM

\* a DELETE that lost its WHERE clause
DeleteRowsNoWhere(docs, chunkRows, id) == [documents |-> {}, doc_chunks |-> {}]

\* DELETE FROM documents WHERE id = %s, with ON DELETE CASCADE on doc_chunks
DeleteRows(docs, chunkRows, id) ==
    [documents  |-> {d \in docs : d.id # id},
     doc_chunks |-> {c \in chunkRows : c.doc_id # id}]

\* What a store step can suffer from outside: nothing, a refused connection,
\* a statement that fails
StoreFaults == {"none", "connect", "execute"}
StoreError(fault) ==
    IF fault = "connect" THEN "OperationalError" ELSE "DatabaseError"

NoLoc ==
    [filename |-> "", content |-> <<>>, chunks |-> <<>>, embeddings |-> <<>>,
     idx |-> 0]

\* a completed call: the entry point, its argument (a doc_id or a query), the
\* fault the environment injected into it, and what it returned or raised
Completed(op, arg, fault, res) ==
    [op |-> op, arg |-> arg, fault |-> fault, res |-> res]

\* no call completed in the step
NoRet == Completed("none", "", "none", [kind |-> "none"])

Raise(exc) == [kind |-> "raise", exc |-> exc]

StoreIdle ==
    /\ documents = {} /\ doc_chunks = {} /\ nextUuid = 1 /\ deleted = {}
    /\ apiKey = TRUE /\ extension = TRUE
    /\ pc = [u \in Uuids |-> "off"]
    /\ loc = [u \in Uuids |-> NoLoc]
    /\ ret = NoRet

InitStore ==
    /\ documents = {}
    /\ doc_chunks = {}
    /\ nextUuid = 1
    /\ deleted = {}
    /\ apiKey \in BOOLEAN
    /\ extension \in BOOLEAN
    /\ pc = [u \in Uuids |-> "unused"]
    /\ loc = [u \in Uuids |-> NoLoc]
    /\ ret = NoRet

\* ---- add_document, db.py:152-172 ----

\* lines 153-157: validation, the fresh id, chunking, the embedding call.
\* An id is taken from the bounded supply only by a call that goes on to use
\* it.
AddBeginEffect(filename, content) ==
    /\ ret = NoRet
    /\ IF AddInvalid(filename, content)
       THEN /\ ret' = Completed("add", "", "none",
                                Raise("ValueError"))
            /\ UNCHANGED <<nextUuid, pc, loc>>
       ELSE LET doc_id == nextUuid
                chunks == ChunkText(content, DEFAULT_CHUNK_SIZE, DEFAULT_OVERLAP)
                proceed(embeddings) ==
                    /\ doc_id \in DOMAIN pc
                    /\ nextUuid' = nextUuid + 1
                    /\ pc' = [pc EXCEPT ![doc_id] = "insert_doc"]
                    /\ loc' = [loc EXCEPT ![doc_id] =
                           [filename |-> filename, content |-> content,
                            chunks |-> chunks, embeddings |-> embeddings,
                            idx |-> 0]]
                    /\ ret' = NoRet
            IN  \* embeddings = _embed_texts(chunks) if chunks else []
                IF ~NeedsEmbedding(chunks) THEN proceed(<<>>)
                ELSE \E reply \in ProviderReplies(Len(chunks), apiKey) :
                       LET e == EmbedTexts(chunks, apiKey, reply)
                       IN  IF e.kind = "raise"
                           THEN /\ ret' = Completed("add", "", "embed", Raise(e.exc))
                                /\ UNCHANGED <<nextUuid, pc, loc>>
                           ELSE proceed(e.embeddings)
    /\ UNCHANGED <<documents, doc_chunks, apiKey, extension, deleted>>

\* a call of add_document made at the server directly
AddBegin(filename, content) ==
    /\ AddBeginEffect(filename, content)
    /\ UNCHANGED <<chunkVars, retryVars, loopVars, clientVars, sessionVars>>

\* the call ends by raising
AddRaise(u, fault, exc) ==
    /\ pc' = [pc EXCEPT ![u] = "ended"]
    /\ loc' = [loc EXCEPT ![u] = NoLoc]
    /\ ret' = Completed("add", u, fault, Raise(exc))

\* lines 159-164: connect (autocommit) and INSERT INTO documents
AddInsertDocument(u) ==
    /\ ret = NoRet
    /\ pc[u] = "insert_doc"
    /\ \E fault \in StoreFaults :
         IF fault # "none"
         THEN /\ AddRaise(u, fault, StoreError(fault))
              /\ UNCHANGED documents
         ELSE /\ documents' = documents \cup
                    {[id |-> u, filename |-> loc[u].filename,
                      content |-> loc[u].content]}
              /\ pc' = [pc EXCEPT ![u] = "insert_chunks"]
              /\ UNCHANGED loc
              /\ ret' = NoRet
    /\ UNCHANGED <<doc_chunks, nextUuid, apiKey, extension, deleted>>
    /\ UNCHANGED <<chunkVars, retryVars, loopVars, clientVars, sessionVars>>

\* a loop that numbers the chunks from 1: enumerate(..., start=1)
ChunkRowFrom1(doc_id, idx, chunk, emb) ==
    [doc_id |-> doc_id, chunk_index |-> idx + 1, chunk_text |-> chunk,
     embedding |-> emb]

\* the row of lines 168-171: (uuid4(), doc_id, idx, chunk, emb_str)
ChunkRow(doc_id, idx, chunk, emb) ==
    [doc_id |-> doc_id, chunk_index |-> idx, chunk_text |-> chunk,
     embedding |-> emb]

\* lines 165-171: one iteration of the loop over zip(chunks, embeddings):
\* INSERT INTO doc_chunks
AddInsertChunk(u) ==
    /\ ret = NoRet
    /\ pc[u] = "insert_chunks"
    /\ loc[u].idx < ZipLen(loc[u].chunks, loc[u].embeddings)
    /\ LET idx == loc[u].idx
           emb == loc[u].embeddings[idx + 1]
       IN  \E fault \in StoreFaults :
             IF fault # "none"
             THEN /\ AddRaise(u, fault, StoreError(fault))
                  /\ UNCHANGED doc_chunks
             ELSE IF ~ForeignKeyHolds(documents, u)
             THEN /\ AddRaise(u, "none", "ForeignKeyViolation")
                  /\ UNCHANGED doc_chunks
             ELSE IF ~VectorFits(emb)
             THEN /\ AddRaise(u, "none", "DataException")
                  /\ UNCHANGED doc_chunks
             ELSE /\ doc_chunks' = doc_chunks \cup
                        {ChunkRow(u, idx, loc[u].chunks[idx + 1], emb)}
                  /\ loc' = [loc EXCEPT ![u].idx = idx + 1]
                  /\ UNCHANGED pc
                  /\ ret' = NoRet
    /\ UNCHANGED <<documents, nextUuid, apiKey, extension, deleted>>
    /\ UNCHANGED <<chunkVars, retryVars, loopVars, clientVars, sessionVars>>

\* line 172: return {"id": str(doc_id), "chunks": len(chunks)}
AddResult(doc_id, chunks) ==
    [kind |-> "return", id |-> doc_id, chunks |-> Len(chunks)]

AddReturn(u) ==
    /\ ret = NoRet
    /\ pc[u] = "insert_chunks"
    /\ loc[u].idx = ZipLen(loc[u].chunks, loc[u].embeddings)
    /\ pc' = [pc EXCEPT ![u] = "returned"]
    /\ loc' = [loc EXCEPT ![u] = NoLoc]
    /\ ret' = Completed("add", u, "none", AddResult(u, loc[u].chunks))
    /\ UNCHANGED <<documents, doc_chunks, nextUuid, apiKey, extension, deleted>>
    /\ UNCHANGED <<chunkVars, retryVars, loopVars, clientVars, sessionVars>>

\* The server process dies (or the request is torn down) between two
\* statements of add_document: nothing more of the call runs, and nothing is
\* rolled back, every statement having been committed on its own.
Crash(u) ==
    /\ ret = NoRet
    /\ pc[u] \in {"insert_doc", "insert_chunks"}
    /\ pc' = [pc EXCEPT ![u] = "ended"]
    /\ loc' = [loc EXCEPT ![u] = NoLoc]
    /\ ret' = NoRet
    /\ UNCHANGED <<documents, doc_chunks, nextUuid, apiKey, extension, deleted>>
    /\ UNCHANGED <<chunkVars, retryVars, loopVars, clientVars, sessionVars>>

\* ---- delete_document, db.py:185-189 ----
DeleteResult(doc_id) == [kind |-> "return", deleted |-> doc_id]

DeleteDocument(doc_id) ==
    /\ ret = NoRet
    /\ \E fault \in StoreFaults :
         IF fault # "none"
         THEN /\ ret' = Completed("delete", doc_id, fault, Raise(StoreError(fault)))
              /\ UNCHANGED <<documents, doc_chunks, deleted>>
         ELSE LET after == DeleteRows(documents, doc_chunks, doc_id)
              IN  /\ documents' = after.documents
                  /\ doc_chunks' = after.doc_chunks
                  /\ deleted' = IF doc_id \in DocIds(documents)
                                THEN deleted \cup {doc_id} ELSE deleted
                  /\ ret' = Completed("delete", doc_id, "none", DeleteResult(doc_id))
    /\ UNCHANGED <<nextUuid, apiKey, extension, pc, loc>>
    /\ UNCHANGED <<chunkVars, retryVars, loopVars, clientVars, sessionVars>>

\* ---- search_documents, db.py:192-238 ----

\* an except clause that re-raises instead of returning
SearchCaughtReraises(exc) == Raise(exc)

\* the except clause, lines 235-238
SearchCaught(exc) ==
    [kind |-> "return", matches |-> {}, has_error |-> TRUE, error |-> exc]

\* return {"matches": rows}
SearchMatches(rows) ==
    [kind |-> "return", matches |-> rows, has_error |-> FALSE, error |-> ""]

\* cur.fetchone()[0]: a row made by dict_row is a dict keyed by column name,
\* so indexing it with 0 raises KeyError(0); a tuple row gives its first column
FetchoneIndex0(row_factory, value) ==
    IF row_factory = "dict_row"
    THEN [kind |-> "raise", exc |-> "KeyError"]
    ELSE [kind |-> "ok", value |-> value]

\* lines 218-229: the rows of doc_chunks joined with their document, nearest
\* first, at most top_k of them.  Vectors are modelled by their dimension, so
\* the order is left open: any top_k of the joined rows.
NearestNeighbors(docs, chunkRows, top_k) ==
    LET joined == {[doc_id |-> c.doc_id, chunk_index |-> c.chunk_index,
                    chunk_text |-> c.chunk_text] :
                   c \in {x \in chunkRows : x.doc_id \in DocIds(docs)}}
    IN  {m \in SUBSET joined : Cardinality(m) = Min(top_k, Cardinality(joined))}

\* lines 203-233: connect with row_factory=dict_row, the extension check, the
\* count, the nearest-neighbour query: the results the call can return
SearchStore(fault, q_emb, top_k) ==
    IF fault # "none" THEN {SearchCaught(StoreError(fault))}
    ELSE IF ~extension
    THEN {SearchCaught("RuntimeError")}
    ELSE LET count == FetchoneIndex0("dict_row", Cardinality(doc_chunks))
         IN  IF count.kind = "raise" THEN {SearchCaught(count.exc)}
             ELSE IF count.value = 0 THEN {SearchMatches({})}
             ELSE IF ~VectorFits(q_emb)
             THEN {SearchCaught("DataException")}
             ELSE {SearchMatches(rows) :
                     rows \in NearestNeighbors(documents, doc_chunks, top_k)}

\* the whole call: the empty-query return (193-194), the embedding of the
\* query (197), the store lookup, the except clause
SearchDocuments(query, top_k) ==
    /\ ret = NoRet
    /\ IF query = ""
       THEN ret' = Completed("search", query, "none", SearchMatches({}))
       ELSE \E reply \in ProviderReplies(1, apiKey) :
              LET e == EmbedTexts(<<query>>, apiKey, reply)
              IN  IF e.kind = "raise"
                  THEN ret' = Completed("search", query, "embed", SearchCaught(e.exc))
                  ELSE IF Len(e.embeddings) = 0
                  THEN \* _embed_texts([query])[0] on an empty list
                       ret' = Completed("search", query, "embed",
                                        SearchCaught("IndexError"))
                  ELSE \E fault \in StoreFaults :
                       \E res \in SearchStore(fault, e.embeddings[1], top_k) :
                         ret' = Completed("search", query,
                                    IF fault = "none" /\ ~extension
                                    THEN "extension" ELSE fault, res)
    /\ UNCHANGED <<documents, doc_chunks, nextUuid, apiKey, extension, deleted,
                   pc, loc>>
    /\ UNCHANGED <<chunkVars, retryVars, loopVars, clientVars, sessionVars>>

\* The HTTP layer hands the completed call's result (or error) to its
\* caller; ret holds a completed call for exactly one state.
Deliver ==
    /\ ret # NoRet
    /\ ret' = NoRet
    /\ UNCHANGED <<documents, doc_chunks, nextUuid, apiKey, extension, deleted,
                   pc, loc>>
    /\ UNCHANGED <<chunkVars, retryVars, loopVars, clientVars, sessionVars>>

(***************************************************************************)
(* The event loops.  The backend and the MCP server are each one process   *)
(* with one asyncio event loop: one thread runs every request's task, and   *)
(* hands over to another task only where the running task suspends at an    *)
(* await.  mcp_client.py awaits httpx's async I/O and asyncio.sleep, which  *)
(* suspend.  The handlers of app.py are `async def` and await the           *)
(* coroutines of db.py, which contain no suspending await at all: their     *)
(* remote calls are the synchronous requests.post (db.py:134) and           *)
(* psycopg.connect / cur.execute (db.py:159-171), which return only when    *)
(* the remote side has answered, the thread waiting inside them.            *)
(***************************************************************************)
MaxTasks == 2
DEFAULT_MAX_RETRIES == 3
DEFAULT_DELAY == 2

Tasks == 1..MaxTasks
NoTask == 0
Procs == {"backend", "mcp_server"}
IdleTask == [proc |-> "none", at |-> "idle", attempt |-> 0]

\* where a task waits for something outside its process: the answer to
\* client.post, the timer of asyncio.sleep, the answer to requests.post, the
\* answer of the store
Waits == {"client_post", "sleep", "requests_post", "psycopg"}

Waiting(t) == tasks[t].at \in Waits
Runnable(t) == tasks[t].at \notin Waits \cup {"idle", "done"}

InitLoop ==
    /\ running = [p \in Procs |-> NoTask]
    /\ tasks = [t \in Tasks |-> IdleTask]

\* the running task suspends at an await, or ends: the thread is free
Release(p) == running' = [running EXCEPT ![p] = NoTask]

\* a request arrives at process p and becomes a task of its event loop
Arrive(t, p) ==
    /\ tasks[t].at = "idle"
    /\ tasks' = [tasks EXCEPT ![t] =
           [proc |-> p, at |-> IF p = "backend" THEN "for" ELSE "handler",
            attempt |-> 0]]
    /\ UNCHANGED running
    /\ UNCHANGED <<chunkVars, retryVars, storeVars, clientVars, sessionVars>>

\* the event loop, its thread free, runs a task that is ready to run
Schedule(t) ==
    /\ Runnable(t)
    /\ running[tasks[t].proc] = NoTask
    /\ running' = [running EXCEPT ![tasks[t].proc] = t]
    /\ UNCHANGED tasks
    /\ UNCHANGED <<chunkVars, retryVars, storeVars, clientVars, sessionVars>>

\* mcp_client.py:14-16 and 28: the next attempt; `await client.post(...)`
\* suspends the task until the response or an error is there
BackendFor(t) ==
    /\ running["backend"] = t
    /\ tasks[t].at = "for"
    /\ tasks' = [tasks EXCEPT ![t].at =
           IF tasks[t].attempt < DEFAULT_MAX_RETRIES THEN "client_post"
           ELSE "done"]
    /\ Release("backend")
    /\ UNCHANGED <<chunkVars, retryVars, storeVars, clientVars, sessionVars>>

\* the response, a connectivity error or another error reaches the backend:
\* the task is ready to run again
HttpCompletes(t, outcome) ==
    /\ tasks[t].at = "client_post"
    /\ tasks' = [tasks EXCEPT ![t].at = outcome]
    /\ UNCHANGED running
    /\ UNCHANGED <<chunkVars, retryVars, storeVars, clientVars, sessionVars>>

\* mcp_client.py:16-22: return the response, raise, or
\* `await asyncio.sleep(delay * (2 ** attempt))`, which suspends the task
BackendResume(t) ==
    /\ running["backend"] = t
    /\ tasks[t].at \in {"return", "except_retry", "except_other"}
    /\ tasks' = [tasks EXCEPT ![t].at =
           IF /\ tasks[t].at = "except_retry"
              /\ ~IsLastAttempt(tasks[t].attempt, DEFAULT_MAX_RETRIES)
           THEN "sleep" ELSE "done"]
    /\ Release("backend")
    /\ UNCHANGED <<chunkVars, retryVars, storeVars, clientVars, sessionVars>>

\* the timer of asyncio.sleep fires: the task is ready for its next attempt
TimerFires(t) ==
    /\ tasks[t].at = "sleep"
    /\ tasks' = [tasks EXCEPT ![t].at = "for", ![t].attempt = @ + 1]
    /\ UNCHANGED running
    /\ UNCHANGED <<chunkVars, retryVars, storeVars, clientVars, sessionVars>>

\* app.py:71-85 into db.py: the handler runs add_document or
\* search_documents up to its first remote call.  A rejected argument ends
\* the task; content without chunks goes straight to the store; otherwise
\* _embed_texts calls requests.post.  Entering a synchronous call does not
\* suspend the task: the thread stays with it.
ServerBegin(t, path) ==
    /\ running["mcp_server"] = t
    /\ tasks[t].at = "handler"
    /\ IF path = "invalid"
       THEN tasks' = [tasks EXCEPT ![t].at = "done"] /\ Release("mcp_server")
       ELSE /\ tasks' = [tasks EXCEPT ![t].at =
                  IF path = "no_chunks" THEN "psycopg" ELSE "requests_post"]
            /\ UNCHANGED running
    /\ UNCHANGED <<chunkVars, retryVars, storeVars, clientVars, sessionVars>>

\* db.py:134-149: requests.post returns (or times out after 30 s).  With
\* the embeddings the task goes on into psycopg.connect; with an error the
\* RuntimeError ends the handler.
ProviderAnswers(t, ok) ==
    /\ tasks[t].at = "requests_post"
    /\ IF ok
       THEN tasks' = [tasks EXCEPT ![t].at = "psycopg"] /\ UNCHANGED running
       ELSE tasks' = [tasks EXCEPT ![t].at = "done"] /\ Release("mcp_server")
    /\ UNCHANGED <<chunkVars, retryVars, storeVars, clientVars, sessionVars>>

\* db.py:159-172, 203-233: the store has answered the statements; the
\* handler returns (or raises)
StoreAnswers(t) ==
    /\ tasks[t].at = "psycopg"
    /\ tasks' = [tasks EXCEPT ![t].at = "done"]
    /\ Release("mcp_server")
    /\ UNCHANGED <<chunkVars, retryVars, storeVars, clientVars, sessionVars>>

(***************************************************************************)
(* One add_document call of the backend client, mcp_client.py:25-34: the    *)
(* request goes through _retry_request with its default arguments, and each *)
(* attempt POSTs the same filename and content to /add_document.            *)
(***************************************************************************)
\* no add_document call of the server answers the current attempt
NoCall == 0

ClientIdle ==
    /\ request = [filename |-> "", content |-> <<>>]
    /\ served = NoCall

\* every attempt can make the server draw one uuid
ClientUuids == 1..DEFAULT_MAX_RETRIES

InitClient ==
    /\ request \in [filename : Filenames, content : Contents]
    /\ served = NoCall
    \* _retry_request(_request): max_retries=3, delay=2
    /\ r_pc = "for"
    /\ max_retries = DEFAULT_MAX_RETRIES
    /\ delay = DEFAULT_DELAY
    /\ attempt = 0
    /\ calls = <<>>
    /\ sleeps = <<>>
    /\ r_result = [kind |-> "pending"]
    \* the store the server writes to
    /\ documents = {}
    /\ doc_chunks = {}
    /\ nextUuid = 1
    /\ deleted = {}
    /\ apiKey \in BOOLEAN
    /\ extension = TRUE
    /\ pc = [u \in ClientUuids |-> "unused"]
    /\ loc = [u \in ClientUuids |-> NoLoc]
    /\ ret = NoRet

\* httpx errors of an attempt, as _retry_request sees them
ClientError(type) ==
    [kind |-> "error", exc |-> [type |-> type, msg |-> "msg1"]]

\* lines 28-31: the POST of the attempt reaches the server, whose handler
\* (app.py:71-73) starts add_document with the request's filename and
\* content; the attempt now awaits the response
ClientPost ==
    /\ r_pc = "try"
    /\ AddBeginEffect(request.filename, request.content)
    /\ r_pc' = "await"
    /\ served' = IF ret' = NoRet THEN nextUuid ELSE NoCall
    /\ UNCHANGED <<max_retries, delay, attempt, calls, sleeps, r_result, request>>
    /\ UNCHANGED <<chunkVars, loopVars, sessionVars>>

\* the POST does not reach the server: httpx.ConnectError
ClientConnectError ==
    /\ r_pc = "try"
    /\ RetryOutcome(ClientError("ConnectError"))
    /\ UNCHANGED <<chunkVars, storeVars, loopVars, clientVars, sessionVars>>

\* TIMEOUT (line 10) expires before the response is there:
\* httpx.TimeoutException.  The server is not told: its add_document call,
\* which has no await at which it could be cancelled, runs on.
ClientTimeout ==
    /\ r_pc = "await"
    /\ RetryOutcome(ClientError("TimeoutException"))
    /\ served' = NoCall
    /\ UNCHANGED request
    /\ UNCHANGED <<chunkVars, storeVars, loopVars, sessionVars>>

\* lines 32-33: the response of the attempt's server call is there; an error
\* status makes raise_for_status raise httpx.HTTPStatusError
ClientResponse ==
    /\ r_pc = "await"
    /\ ret.op = "add"
    /\ IF served = NoCall THEN TRUE ELSE ret.arg = served
    /\ RetryOutcome(IF ret.res.kind = "return"
                    THEN [kind |-> "ok", value |-> ret.res]
                    ELSE ClientError("HTTPStatusError"))
    /\ ret' = NoRet
    /\ served' = NoCall
    /\ UNCHANGED request
    /\ UNCHANGED <<documents, doc_chunks, nextUuid, apiKey, extension, deleted,
                   pc, loc>>
    /\ UNCHANGED <<chunkVars, loopVars, sessionVars>>

(***************************************************************************)
(* Admin sessions of the backend, backend/app.py:31-129.  The routes are    *)
(* `async def` and run on the event-loop thread, one at a time (none awaits *)
(* between touching active_sessions); get_current_admin is a plain `def`    *)
(* dependency, which FastAPI runs on a worker thread, so its statements     *)
(* interleave with everything else.  Time is in hours; datetime.now() is    *)
(* taken to be non-decreasing.                                              *)
(***************************************************************************)
SESSION_TIMEOUT == 24

MaxSessions == 1
MaxWorkers == 1
MaxTime == 25

\* how far the clock is seen to advance between two steps
TickHours == {12, 13}

Sids == 1..MaxSessions
\* a cookie value that create_session never issued, and no cookie at all
ForgedSid == 0
NoCookie == -1
Cookies == {NoCookie, ForgedSid} \cup Sids
NeverCreated == -1
\* who checks a cookie: the event-loop thread, for the /admin route, and the
\* worker threads, for get_current_admin
LoopThread == 0
Workers == 1..MaxWorkers
Verifiers == {LoopThread} \cup Workers

IdleVerifier == [at |-> "idle", sid |-> NoCookie]
\* the answers that are not an acceptance: the redirect or 401, and 500
Rejected == [at |-> "rejected", sid |-> NoCookie]
KeyError == [at |-> "error", sid |-> NoCookie]

InitSessions ==
    /\ active_sessions = <<>>
    /\ now = 0
    /\ nextSid = 1
    /\ verifiers = [v \in Verifiers |-> IdleVerifier]
    /\ loginTime = [sid \in Sids |-> NeverCreated]
    /\ removed = <<>>

\* del active_sessions[sid]
DelSession(sessions, sid) ==
    [x \in DOMAIN sessions \ {sid} |-> sessions[x]]

\* the dict that left active_sessions stays alive while a local variable of
\* a running verify_session refers to it
Orphaned(sid) ==
    [x \in DOMAIN removed \cup {sid} |->
       IF x = sid THEN active_sessions[sid] ELSE removed[x]]

\* a verify_session that measures from the last access
SessionAgeSinceAccess(session, t) == t - session.last_accessed

\* line 55: datetime.now() - session['created_at']
SessionAge(session, t) == t - session.created_at

\* the event-loop thread is inside verify_session for the /admin route
LoopThreadBusy == verifiers[LoopThread].at \in {"l54", "l55", "l57", "l61"}

\* the clock advances
Tick(d) ==
    /\ now + d <= MaxTime
    /\ now' = now + d
    /\ UNCHANGED <<active_sessions, nextSid, verifiers, loginTime, removed>>
    /\ UNCHANGED <<chunkVars, retryVars, storeVars, loopVars, clientVars>>

\* lines 94-119, 39-47: POST /admin/login; with the right credentials
\* create_session stores a session under a fresh uuid4
Login(ok) ==
    /\ ~LoopThreadBusy
    /\ IF ok
       THEN /\ nextSid <= MaxSessions
            /\ active_sessions' =
                  [x \in DOMAIN active_sessions \cup {nextSid} |->
                     IF x = nextSid
                     THEN [created_at |-> now, last_accessed |-> now]
                     ELSE active_sessions[x]]
            /\ loginTime' = [loginTime EXCEPT ![nextSid] = now]
            /\ nextSid' = nextSid + 1
       ELSE UNCHANGED <<active_sessions, loginTime, nextSid>>
    /\ UNCHANGED <<now, verifiers, removed>>
    /\ UNCHANGED <<chunkVars, retryVars, storeVars, loopVars, clientVars>>

\* lines 121-129: POST /admin/logout
Logout(cookie) ==
    /\ ~LoopThreadBusy
    /\ IF cookie \in DOMAIN active_sessions
       THEN /\ active_sessions' = DelSession(active_sessions, cookie)
            /\ removed' = Orphaned(cookie)
       ELSE UNCHANGED <<active_sessions, removed>>
    /\ UNCHANGED <<now, nextSid, verifiers, loginTime>>
    /\ UNCHANGED <<chunkVars, retryVars, storeVars, loopVars, clientVars>>

\* lines 66 / 80 and 51: a request presents its cookie, to the /admin route
\* or to get_current_admin: `not admin_session`, then verify_session's
\* `session_id not in active_sessions`
VerifyBegin(v, cookie) ==
    /\ verifiers[v].at = "idle"
    /\ verifiers' = [verifiers EXCEPT ![v] =
           IF cookie = NoCookie \/ cookie \notin DOMAIN active_sessions
           THEN Rejected
           ELSE [at |-> "l54", sid |-> cookie]]
    /\ UNCHANGED <<active_sessions, now, nextSid, loginTime, removed>>
    /\ UNCHANGED <<chunkVars, retryVars, storeVars, loopVars, clientVars>>

\* line 54: session = active_sessions[session_id] (KeyError if it is gone)
Verify54(v) ==
    /\ verifiers[v].at = "l54"
    /\ verifiers' = [verifiers EXCEPT ![v] =
           IF verifiers[v].sid \in DOMAIN active_sessions
           THEN [@ EXCEPT !.at = "l55"]
           ELSE KeyError]
    /\ UNCHANGED <<active_sessions, now, nextSid, loginTime, removed>>
    /\ UNCHANGED <<chunkVars, retryVars, storeVars, loopVars, clientVars>>

\* the dict the local variable session refers to
SessionObject(v) ==
    IF verifiers[v].sid \in DOMAIN active_sessions
    THEN active_sessions[verifiers[v].sid]
    ELSE removed[verifiers[v].sid]

\* line 55: if datetime.now() - session['created_at'] > SESSION_TIMEOUT
Verify55(v) ==
    /\ verifiers[v].at = "l55"
    /\ verifiers' = [verifiers EXCEPT ![v] =
           [@ EXCEPT !.at = IF SessionAge(SessionObject(v), now) > SESSION_TIMEOUT
                            THEN "l57" ELSE "l61"]]
    /\ UNCHANGED <<active_sessions, now, nextSid, loginTime, removed>>
    /\ UNCHANGED <<chunkVars, retryVars, storeVars, loopVars, clientVars>>

\* lines 57-58: del active_sessions[session_id] (KeyError if it is gone);
\* return False
Verify57(v) ==
    /\ verifiers[v].at = "l57"
    /\ IF verifiers[v].sid \in DOMAIN active_sessions
       THEN /\ active_sessions' = DelSession(active_sessions, verifiers[v].sid)
            /\ removed' = Orphaned(verifiers[v].sid)
            /\ verifiers' = [verifiers EXCEPT ![v] = Rejected]
       ELSE /\ verifiers' = [verifiers EXCEPT ![v] = KeyError]
            /\ UNCHANGED <<active_sessions, removed>>
    /\ UNCHANGED <<now, nextSid, loginTime>>
    /\ UNCHANGED <<chunkVars, retryVars, storeVars, loopVars, clientVars>>

\* lines 61-62: session['last_accessed'] = datetime.now(); return True.  The
\* /admin route then serves the page; get_current_admin goes on to line 71.
\* Written to a dict that has left active_sessions, the time is lost with
\* the dict when the function returns: nothing reads last_accessed.
Verify61(v) ==
    /\ verifiers[v].at = "l61"
    /\ active_sessions' =
          IF verifiers[v].sid \in DOMAIN active_sessions
          THEN [active_sessions EXCEPT ![verifiers[v].sid].last_accessed = now]
          ELSE active_sessions
    /\ verifiers' = [verifiers EXCEPT ![v].at =
           IF v = LoopThread THEN "accepted" ELSE "l71"]
    /\ UNCHANGED <<now, nextSid, loginTime, removed>>
    /\ UNCHANGED <<chunkVars, retryVars, storeVars, loopVars, clientVars>>

\* line 71: return active_sessions[admin_session]['username'] (KeyError if
\* the session is gone)
Verify71(v) ==
    /\ verifiers[v].at = "l71"
    /\ verifiers' = [verifiers EXCEPT ![v] =
           IF verifiers[v].sid \in DOMAIN active_sessions
           THEN [@ EXCEPT !.at = "accepted"] ELSE KeyError]
    /\ UNCHANGED <<active_sessions, now, nextSid, loginTime, removed>>
    /\ UNCHANGED <<chunkVars, retryVars, storeVars, loopVars, clientVars>>

\* the request is answered: the page or the endpoint's result, the redirect
\* or 401, or 500
VerifyEnd(v) ==
    /\ verifiers[v].at \in {"accepted", "rejected", "error"}
    /\ verifiers' = [verifiers EXCEPT ![v] = IdleVerifier]
    /\ UNCHANGED <<active_sessions, now, nextSid, loginTime, removed>>
    /\ UNCHANGED <<chunkVars, retryVars, storeVars, loopVars, clientVars>>

(***************************************************************************)
(* The specifications.                                                      *)
(***************************************************************************)
InitSpecChunk == InitChunk /\ RetryIdle /\ StoreIdle /\ InitLoop /\ ClientIdle /\ InitSessions
NextChunk == CallChunkText
SpecChunk == InitSpecChunk /\ [][NextChunk]_vars

InitSpecRetry == ChunkIdle /\ InitRetry /\ StoreIdle /\ InitLoop /\ ClientIdle /\ InitSessions
NextRetry == RetryFor \/ RetryTry \/ RetrySleep
SpecRetry == InitSpecRetry /\ [][NextRetry]_vars

Init == ChunkIdle /\ RetryIdle /\ InitStore /\ InitLoop /\ ClientIdle /\ InitSessions
Next ==
    \/ \E filename \in Filenames, content \in Contents : AddBegin(filename, content)
    \/ \E u \in Uuids :
         AddInsertDocument(u) \/ AddInsertChunk(u) \/ AddReturn(u) \/ Crash(u)
    \/ \E doc_id \in {UnknownUuid} \cup 1..(nextUuid - 1) : DeleteDocument(doc_id)
    \/ \E query \in Queries, top_k \in TopKs : SearchDocuments(query, top_k)
    \/ Deliver
Spec == Init /\ [][Next]_vars

InitSpecLoop == ChunkIdle /\ RetryIdle /\ StoreIdle /\ InitLoop /\ ClientIdle /\ InitSessions
NextLoop ==
    \/ \E t \in Tasks, p \in Procs : Arrive(t, p)
    \/ \E t \in Tasks :
         \/ Schedule(t)
         \/ BackendFor(t)
         \/ BackendResume(t)
         \/ TimerFires(t)
         \/ StoreAnswers(t)
    \/ \E t \in Tasks, outcome \in {"return", "except_retry", "except_other"} :
         HttpCompletes(t, outcome)
    \/ \E t \in Tasks, path \in {"invalid", "no_chunks", "embed"} :
         ServerBegin(t, path)
    \/ \E t \in Tasks, ok \in BOOLEAN : ProviderAnswers(t, ok)
SpecLoop == InitSpecLoop /\ [][NextLoop]_vars

InitSpecSession == ChunkIdle /\ RetryIdle /\ StoreIdle /\ InitLoop /\ ClientIdle /\ InitSessions
NextSession ==
    \/ \E d \in TickHours : Tick(d)
    \/ \E ok \in BOOLEAN : Login(ok)
    \/ \E cookie \in Cookies : Logout(cookie)
    \/ \E v \in Verifiers, cookie \in Cookies : VerifyBegin(v, cookie)
    \/ \E v \in Verifiers :
         \/ Verify54(v)
         \/ Verify55(v)
         \/ Verify57(v)
         \/ Verify61(v)
         \/ Verify71(v)
         \/ VerifyEnd(v)
SpecSession == InitSpecSession /\ [][NextSession]_vars

InitSpecClient == ChunkIdle /\ InitLoop /\ InitClient /\ InitSessions
NextClient ==
    \/ RetryFor
    \/ ClientPost
    \/ ClientConnectError
    \/ ClientTimeout
    \/ ClientResponse
    \/ RetrySleep
    \/ \E u \in ClientUuids :
         AddInsertDocument(u) \/ AddInsertChunk(u) \/ AddReturn(u)
    \/ Deliver
SpecClient == InitSpecClient /\ [][NextClient]_vars

(***************************************************************************)
(* Properties.                                                              *)
(***************************************************************************)

\* C1: search_documents never raises.  Every completed call returned a result
\* object with a 'matches' collection, and whenever the embedding call or a
\* store step failed in it, 'matches' is empty and an 'error' is present.
C1_SearchNeverRaises ==
    ret.op = "search" =>
        /\ ret.res.kind = "return"
        /\ "matches" \in DOMAIN ret.res
        /\ ret.fault # "none" => ret.res.has_error /\ ret.res.matches = {}

\* a search that lost its store connection has completed, with an error
C1_Witness ==
    /\ ret.op = "search" /\ ret.fault = "connect"
    /\ ret.res.kind = "return" /\ ret.res.has_error

RECURSIVE TwoToThe(_)
TwoToThe(k) == IF k = 0 THEN 1 ELSE 2 * TwoToThe(k - 1)

ConnectivityFailure(o) ==
    o.kind = "error" /\ o.exc.type \in {"ConnectError", "TimeoutException"}

\* C2: when attempts 0..j-1 fail with a connectivity/timeout error and attempt
\* j succeeds, the call has returned the value of attempt j, func was invoked
\* j+1 times and never again, exactly j sleeps happened, and the sleep after
\* attempt i was delay * 2^i.
C2_SuccessAfterRetries ==
    \A n \in 1..Len(calls) :
        (/\ calls[n].kind = "ok"
         /\ \A i \in 1..(n - 1) : ConnectivityFailure(calls[i]))
        => /\ n = Len(calls)
           /\ n <= max_retries
           /\ r_pc = "returned"
           /\ r_result = [kind |-> "return", value |-> calls[n].value]
           /\ Len(sleeps) = n - 1
           /\ \A i \in 1..(n - 1) : sleeps[i] = delay * TwoToThe(i - 1)

\* two connectivity failures, then a success: slept delay, then 2 * delay
C2_Witness ==
    /\ r_pc = "returned" /\ Len(calls) = 3 /\ calls[3].kind = "ok"
    /\ ConnectivityFailure(calls[1]) /\ ConnectivityFailure(calls[2])
    /\ delay = 2 /\ sleeps = <<2, 4>>

\* C3: an attempt that fails with an error that is not a connectivity/timeout
\* error is the last one: func is not invoked again, no sleep follows it, and
\* the call raises that same error, however many attempts remain.
C3_OtherErrorsPropagate ==
    \A n \in 1..Len(calls) :
        (calls[n].kind = "error" /\ ~ConnectivityFailure(calls[n]))
        => /\ n = Len(calls)
           /\ r_pc = "raised"
           /\ r_result = [kind |-> "raise", exc |-> calls[n].exc]
           /\ Len(sleeps) = n - 1

\* an HTTP status error on the second of three attempts has been raised
C3_Witness ==
    /\ r_pc = "raised" /\ max_retries = 3 /\ Len(calls) = 2
    /\ calls[2].kind = "error" /\ calls[2].exc.type = "HTTPStatusError"
    /\ r_result.exc = calls[2].exc /\ Len(sleeps) = 1

\* C4: when every attempt (there being at least one) fails with a
\* connectivity/timeout error, the call ends only after max_retries
\* invocations, with max_retries - 1 sleeps, by raising a ConnectError that
\* carries the cause of the last failure and the attempt count.
C4_ExhaustedRetries ==
    (/\ r_pc \in {"returned", "raised"}
     /\ Len(calls) >= 1
     /\ \A i \in 1..Len(calls) : ConnectivityFailure(calls[i]))
    => /\ Len(calls) = max_retries
       /\ Len(sleeps) = max_retries - 1
       /\ r_pc = "raised"
       /\ r_result = [kind |-> "raise",
                      exc |-> [type |-> "ConnectError", attempts |-> max_retries,
                               cause |-> calls[Len(calls)].exc.msg]]

\* three connectivity failures out of three attempts: the call has raised
C4_Witness ==
    /\ r_pc = "raised" /\ max_retries = 3 /\ Len(calls) = 3
    /\ \A i \in 1..3 : ConnectivityFailure(calls[i])
    /\ Len(sleeps) = 2

\* the chunks _chunk_text makes of a document's content
ExpectedChunks(d) == ChunkText(d.content, DEFAULT_CHUNK_SIZE, DEFAULT_OVERLAP)

\* C5: document insertion is atomic.  In no store state does a Document row
\* exist with only a strict subset of the chunks of its content.
C5_InsertIsAtomic ==
    \A d \in documents :
        Cardinality(ChunksOf(doc_chunks, d.id)) = Len(ExpectedChunks(d))

\* C6: fail-closed ingestion.  When add_document returns {id, chunks: n}, the
\* store holds the Document row and exactly n Chunk rows for it, one per
\* chunk of the chunker, in order, each with an embedding.
C6_SuccessMeansStored ==
    (ret.op = "add" /\ ret.res.kind = "return") =>
        \E d \in documents :
            /\ d.id = ret.res.id
            /\ ret.res.chunks = Len(ExpectedChunks(d))
            /\ Cardinality(ChunksOf(doc_chunks, d.id)) = ret.res.chunks
            /\ \A i \in 1..Len(ExpectedChunks(d)) :
                 \E c \in ChunksOf(doc_chunks, d.id) :
                    /\ c.chunk_index = i - 1
                    /\ c.chunk_text = ExpectedChunks(d)[i]
                    /\ c.embedding = EMBED_DIM

\* C7: no orphan chunk.  Every Chunk row's doc_id is the id of a Document
\* row; once a delete_document call has removed a document, no chunk of it
\* is in the store, and none is among the matches of a search.
C7_NoOrphanChunk ==
    /\ \A c \in doc_chunks : c.doc_id \in DocIds(documents)
    /\ \A c \in doc_chunks : c.doc_id \notin deleted
    /\ (ret.op = "search" /\ ret.res.kind = "return") =>
           \A m \in ret.res.matches : m.doc_id \notin deleted

\* a document was deleted while its add_document call, having inserted chunk
\* rows, is still in its insert loop
C7_Witness ==
    \E u \in deleted :
        /\ pc[u] = "insert_chunks"
        /\ loc[u].idx >= 1
        /\ loc[u].idx < ZipLen(loc[u].chunks, loc[u].embeddings)
        /\ ChunksOf(doc_chunks, u) = {}

\* C8: delete_document is idempotent.  A delete that the store carries out
\* returns {deleted: id}; if id is not in the store, no Document or Chunk row
\* changes; and afterwards id is not in the store (so a second delete of it
\* is a delete of an absent id, and changes nothing).
C8_DeleteIdempotent ==
    [][(ret'.op = "delete" /\ ret'.fault = "none") =>
          LET id == ret'.arg
          IN  /\ ret'.res = [kind |-> "return", deleted |-> id]
              /\ id \notin DocIds(documents) =>
                    documents' = documents /\ doc_chunks' = doc_chunks
              /\ id \notin DocIds(documents')
              /\ ChunksOf(doc_chunks', id) = {}
              /\ \A d \in documents : d.id # id => d \in documents'
              /\ \A c \in doc_chunks : c.doc_id # id => c \in doc_chunks'
      ]_vars

\* a delete of an id that was never added has returned normally, the store
\* holding a document and its chunk
C8_Witness ==
    /\ ret.op = "delete" /\ ret.arg = UnknownUuid /\ ret.res.kind = "return"
    /\ documents # {} /\ doc_chunks # {}

\* C9: on a store with zero chunks (the vector extension present, the
\* embedding call and the store working), a search with a non-empty query
\* returns {matches: []} and no error.
C9_EmptyStoreNoError ==
    (/\ ret.op = "search" /\ ret.arg # "" /\ ret.fault = "none"
     /\ extension /\ doc_chunks = {})
    => ret.res.kind = "return" /\ ret.res.matches = {} /\ ~ret.res.has_error

\* The words of the chunks in order, each chunk after the first without its
\* first Min(overlap // 5, words of the previous chunk) words (none when
\* overlap <= 0): the words the overlap rule repeats.
OverlapCount(prev, ov) ==
    IF ov > 0 THEN Min(ov \div 5, Len(Split(prev))) ELSE 0

RECURSIVE Reconstruct(_, _, _)
Reconstruct(chunks, i, ov) ==
    IF i > Len(chunks) THEN <<>>
    ELSE LET words == Split(chunks[i])
             k     == IF i = 1 THEN 0 ELSE OverlapCount(chunks[i - 1], ov)
         IN  SubSeq(words, k + 1, Len(words)) \o Reconstruct(chunks, i + 1, ov)

\* C10: _chunk_text emits no empty or whitespace-only chunk, and the chunks'
\* words, the overlap-duplicated leading words of every chunk after the first
\* dropped, are exactly the words of the text, in order.
C10_ChunksReconstructText ==
    c_pc = "done" =>
        /\ \A i \in 1..Len(c_result) : Len(Strip(c_result[i])) > 0
        /\ Reconstruct(c_result, 1, overlap) = Split(text)

\* how many words of the text chunks 1..i hold, the repeated words counted once
RECURSIVE NewWordsUpTo(_, _, _)
NewWordsUpTo(chunks, i, ov) ==
    IF i = 0 THEN 0
    ELSE LET k == IF i = 1 THEN 0 ELSE OverlapCount(chunks[i - 1], ov)
         IN  NewWordsUpTo(chunks, i - 1, ov) + Len(Split(chunks[i])) - k

\* C11: with overlap > 0 and more than one chunk, whenever chunk i has at
\* least overlap // 5 words, chunk i+1 begins with exactly the last
\* overlap // 5 words of chunk i (none when 0 < overlap < 5), followed by the
\* word that closed chunk i, i.e. the first word of the text not yet in a
\* chunk.
C11_OverlapPrefix ==
    (c_pc = "done" /\ overlap > 0) =>
        \A i \in 1..(Len(c_result) - 1) :
            LET k     == overlap \div 5
                prev  == Split(c_result[i])
                next  == Split(c_result[i + 1])
                words == Split(text)
                n     == NewWordsUpTo(c_result, i, overlap)
            IN  Len(prev) >= k =>
                    /\ Len(next) >= k + 1
                    /\ SubSeq(next, 1, k) = SubSeq(prev, Len(prev) - k + 1, Len(prev))
                    /\ n + 1 <= Len(words)
                    /\ next[k + 1] = words[n + 1]

\* a word longer than chunk_size
IsLongWord(word, cs) == WordLen(word) > cs

\* whether seq occurs in within as a run of consecutive elements
OccursIn(seq, within) ==
    \E a \in 0..(Len(within) - Len(seq)) :
        SubSeq(within, a + 1, a + Len(seq)) = seq

\* every word of every chunk is a whole word of the text
WordsAreWhole ==
    \A i \in 1..Len(c_result) :
        \A j \in 1..Len(Split(c_result[i])) :
            \E n \in 1..Len(Split(text)) : Split(c_result[i])[j] = Split(text)[n]

EmptyInput(filename, content) ==
    filename = "" \/ content = NoneContent \/ content = <<>>

\* C13: a call of add_document with an empty filename, or with null or empty
\* content, ends at once with a validation error: it makes no embedding call
\* and does not go on to write a Document or Chunk row.
C13_EmptyInputRejected ==
    [][\A filename \in Filenames, content \in Contents :
          (EmptyInput(filename, content) /\ AddBegin(filename, content)) =>
              /\ ret' = Completed("add", "", "none", Raise("ValueError"))
              /\ pc' = pc
              /\ documents' = documents /\ doc_chunks' = doc_chunks
      ]_vars

\* some vector of the embedding result is not EMBED_DIM long
HasWrongDimension(embeddings) ==
    \E i \in 1..Len(embeddings) : embeddings[i] # EMBED_DIM

NothingPersisted(doc_id) ==
    doc_id \notin DocIds(documents) /\ ChunksOf(doc_chunks, doc_id) = {}

\* C14: an embedding result with a vector of another length than EMBED_DIM is
\* rejected before anything is persisted.  While a call of add_document holds
\* such a result, and when the call has ended on the store's refusal of the
\* vector, neither the Document row nor a Chunk row of that ingest is in the
\* store.
C14_WrongDimensionNotPersisted ==
    /\ \A u \in Uuids :
         (pc[u] \in {"insert_doc", "insert_chunks"}
            /\ HasWrongDimension(loc[u].embeddings))
         => NothingPersisted(u)
    /\ (ret.op = "add" /\ ret.res = Raise("DataException"))
         => NothingPersisted(ret.arg)

\* the add_document call of document u has returned, and the store holds its
\* row and every chunk of its content, at least one
Ingested(u) ==
    /\ pc[u] = "returned"
    /\ \E d \in documents :
         /\ d.id = u
         /\ Len(ExpectedChunks(d)) >= 1
         /\ Cardinality(ChunksOf(doc_chunks, u)) = Len(ExpectedChunks(d))

\* C15: once a document with at least one chunk is ingested, a search with a
\* non-empty query and top_k >= 1, the provider and the store working and the
\* extension present, returns no error and a non-empty set of at most top_k
\* matches, each a chunk row with its doc_id, chunk_index and chunk_text.
C15_SearchFindsIngested ==
    [][\A query \in Queries \ {""}, top_k \in TopKs :
          (/\ \E u \in Uuids : Ingested(u)
           /\ extension
           /\ SearchDocuments(query, top_k)
           /\ ret'.fault = "none")
          => /\ ret'.res.kind = "return"
             /\ ~ret'.res.has_error
             /\ ret'.res.matches # {}
             /\ Cardinality(ret'.res.matches) <= top_k
             /\ \A m \in ret'.res.matches :
                  \E c \in doc_chunks :
                     /\ m.doc_id = c.doc_id
                     /\ m.chunk_index = c.chunk_index
                     /\ m.chunk_text = c.chunk_text
      ]_vars

\* a content (not None) without a word: empty or whitespace only
WhitespaceOnly(content) == content # NoneContent /\ Split(content) = <<>>

\* C16: a call of add_document whose content is whitespace only (zero chunks)
\* goes on to the store without an embedding call, so also without a
\* credential; its INSERT creates the Document row; no Chunk row of it is ever
\* written; and when it returns, it returns chunks = 0.
C16_ZeroChunksStillStored ==
    [][/\ \A filename \in Filenames \ {""}, content \in Contents :
            (WhitespaceOnly(content) /\ AddBegin(filename, content)) =>
                /\ ret' = NoRet
                /\ pc'[nextUuid] = "insert_doc"
                /\ loc'[nextUuid].embeddings = <<>>
       /\ \A u \in Uuids :
            (pc[u] \in {"insert_doc", "insert_chunks"}
               /\ WhitespaceOnly(loc[u].content)) =>
                /\ (pc[u] = "insert_doc" /\ pc'[u] = "insert_chunks") =>
                      \E d \in documents' :
                          d.id = u /\ d.content = loc[u].content
                /\ ChunksOf(doc_chunks', u) = {}
                /\ pc'[u] = "returned" =>
                      ret' = Completed("add", u, "none",
                                 [kind |-> "return", id |-> u, chunks |-> 0])
      ]_vars

\* without a credential, a whitespace-only document has been added: its call
\* returned chunks = 0 and its row is in the store, without any chunk
C16_Witness ==
    /\ ~apiKey
    /\ ret.op = "add" /\ ret.res.kind = "return" /\ ret.res.chunks = 0
    /\ \E d \in documents : d.id = ret.arg /\ d.content = <<SP>>
    /\ doc_chunks = {}

\* the chunk rows of document d are numbered 0..m-1 without gap or repetition,
\* and the row numbered i holds the chunker's i-th chunk of d's content
IndexedInChunkingOrder(d, chunkRows) ==
    LET rows == ChunksOf(chunkRows, d.id)
        m    == Cardinality(rows)
    IN  \/ rows = {}
        \/ LET expected == ExpectedChunks(d)
           IN  /\ m <= Len(expected)
               /\ \A c \in rows : c.chunk_index \in 0..(m - 1)
               /\ \A c1, c2 \in rows : c1.chunk_index = c2.chunk_index => c1 = c2
               /\ \A c \in rows : c.chunk_text = expected[c.chunk_index + 1]

\* C17: after every step, the chunk rows of each document carry the indexes
\* 0..m-1, pairwise distinct, the row with index i holding the i-th chunk of
\* the chunker; a row stays as it is for as long as its document exists; and
\* a new row takes the next index of its document, never one that is in use.
C17_ChunkIndexContiguous ==
    [][/\ \A d \in documents' : IndexedInChunkingOrder(d, doc_chunks')
       /\ \A c \in doc_chunks :
            c.doc_id \in DocIds(documents') => c \in doc_chunks'
       /\ \A c \in doc_chunks' \ doc_chunks :
            c.chunk_index = Cardinality(ChunksOf(doc_chunks, c.doc_id))
      ]_vars

\* a returned add_document call has left two chunk rows, numbered 0 and 1
C17_Witness ==
    \E d \in documents :
        /\ pc[d.id] = "returned"
        /\ {c.chunk_index : c \in ChunksOf(doc_chunks, d.id)} = {0, 1}
        /\ Cardinality(ChunksOf(doc_chunks, d.id)) = 2

\* C18: a search (non-empty query, the embedding call and the connection
\* working) that finds the vector extension missing returns a result with an
\* 'error'; one that finds the extension and a store without chunks returns
\* empty matches and no 'error'.  So the two results always differ.
C18_MissingExtensionVsEmptyStore ==
    (ret.op = "search" /\ ret.arg # "" /\ ret.fault \in {"none", "extension"}) =>
        /\ ~extension =>
              /\ ret.fault = "extension"
              /\ ret.res.kind = "return" /\ ret.res.has_error
        /\ (extension /\ doc_chunks = {}) =>
              /\ ret.res.kind = "return"
              /\ ret.res.matches = {} /\ ~ret.res.has_error

\* C19: a task that waits for a remote call or for its backoff timer does
\* not hold its process's event-loop thread, so that every other task of the
\* process that is ready to run can be run.
C19_WaitParksOnlyOwnTask ==
    \A t, other \in Tasks :
        (/\ t # other
         /\ tasks[other].proc = tasks[t].proc
         /\ Waiting(t)
         /\ Runnable(other))
        => running[tasks[t].proc] # t

\* C20: the one add_document call of the client, whatever its attempts meet,
\* leaves at most one Document in the store.
C20_OneCallOneDocument ==
    Cardinality(documents) <= 1

\* C21: when the embedding call of add_document fails, the call raises the
\* error and the store is as before: no Document row, no Chunk row, and the
\* call does not go on to the store.  Without a credential this is so for
\* every call whose content has a chunk; with one, for every failure of the
\* request (timeout, request failure, status other than 200).
C21_EmbedFailureLeavesStore ==
    [][/\ \A filename \in Filenames \ {""}, content \in Contents :
            (/\ ~apiKey
             /\ content # NoneContent /\ Split(content) # <<>>
             /\ AddBegin(filename, content))
            => /\ ret' = Completed("add", "", "embed", Raise("RuntimeError"))
               /\ documents' = documents /\ doc_chunks' = doc_chunks
               /\ pc' = pc /\ nextUuid' = nextUuid
       /\ (ret'.op = "add" /\ ret'.fault = "embed")
            => /\ ret'.res.kind = "raise"
               /\ documents' = documents /\ doc_chunks' = doc_chunks
               /\ pc' = pc /\ nextUuid' = nextUuid
      ]_vars

\* with a credential and a document in the store, the embedding call of
\* another add_document has failed, and the call has raised
C21_Witness ==
    /\ apiKey
    /\ ret.op = "add" /\ ret.fault = "embed"
    /\ ret.res = Raise("RuntimeError")
    /\ documents # {} /\ doc_chunks # {}

\* a request's check of its session has just passed line 55
CheckPasses(v) == verifiers[v].at = "l55" /\ verifiers'[v].at = "l61"

\* a request has just been accepted: verify_session returned True to the
\* /admin route, or get_current_admin returned the user name
BecomesAccepted(v) == verifiers[v].at # "accepted" /\ verifiers'[v].at = "accepted"

C23_CompletedCallHasAttempted ==
    r_pc \in {"returned", "raised"}
        => /\ Len(calls) >= 1
           /\ r_pc = "returned"
                => /\ r_result.kind = "return"
                   /\ \E n \in DOMAIN calls :
                        /\ calls[n].kind = "ok"
                        /\ calls[n].value = r_result.value
           /\ r_pc = "raised" => r_result.kind = "raise"

====
